---- MODULE Spec2Model ----
(***************************************************************************)
(* Model of the minio-xl command line front end (main.go): the start-up    *)
(* preconditions of init(), the command/flag registries and the prefix     *)
(* trie built by registerApp(), the "command not found" suggestion path    *)
(* and the diagnostics snapshot of getSystemData().                        *)
(*                                                                         *)
(* Strings that enter the trie are tuples of one-character strings, so     *)
(* that prefixes are computed character by character.                      *)
(***************************************************************************)
EXTENDS Integers, Sequences, FiniteSets, TLC

VARIABLES
    pc,               \* position of the process: "init", "main", "run", "dispatch", "exited" (SpecReg, SpecTrie: "register", "query", "queried")
    userErr,          \* user.Current() returned an error
    euid,             \* os.Geteuid()
    goVersionOk,      \* the Go runtime is a supported version
    commands,         \* var commands []cli.Command
    flags,            \* var flags []cli.Flag
    commandsTree,     \* var commandsTree (prefix trie of command names)
    app,              \* the *cli.App built by registerApp, NoApp before
    globalJSONFlag,   \* set by app.Before
    exitCode,         \* exit status, meaningful once pc = "exited"
    msg,              \* the message of the fatal error, if any
    closestCommands,  \* result of the last findClosestCommands call
    extraInfo,        \* result of the last getSystemData call
    hostname,         \* result of the last os.Hostname() call
    token,            \* the last unrecognized token handed to the not-found callback
    regErr,           \* outcome of the last registerCommand/registerFlag call
    regLogC,          \* history: commands whose registration was accepted, in call order
    regLogF           \* history: flags whose registration was accepted, in call order

vars == <<pc, userErr, euid, goVersionOk, commands, flags, commandsTree, app,
          globalJSONFlag, exitCode, msg, closestCommands, extraInfo, hostname, token,
          regErr, regLogC, regLogF>>

(***************************************************************************)
(* Bounds of the registry and trie specifications (SpecReg, SpecTrie).     *)
(***************************************************************************)
MaxLen == 2       \* longest name / token
MaxCmds == 2      \* most commands held by the registry
MaxFlags == 1     \* most flags held by the registry

(***************************************************************************)
(* Characters and strings.                                                 *)
(***************************************************************************)
Alphabet == <<"a", "b", "c", "d", "e", "f", "g", "h", "i", "j", "k", "l", "m",
              "n", "o", "p", "q", "r", "s", "t", "u", "v", "w", "x", "y", "z">>

IsPrefix(p, s) == Len(p) <= Len(s) /\ SubSeq(s, 1, Len(p)) = p

Prefixes(s) == {SubSeq(s, 1, k) : k \in 0..Len(s)}

ToSet(seq) == {seq[i] : i \in 1..Len(seq)}

(***************************************************************************)
(* PrefixTrie.  A node owns a map from characters to child nodes and an    *)
(* optional terminal value.                                                *)
(***************************************************************************)
NewNode == [children |-> <<>>, exists |-> FALSE, value |-> <<>>]

NewTrie == NewNode

RECURSIVE Insert(_, _, _)
Insert(node, key, value) ==
    IF key = <<>>
    THEN [node EXCEPT !.exists = TRUE, !.value = value]
    ELSE LET c == Head(key)
             child == IF c \in DOMAIN node.children THEN node.children[c] ELSE NewNode
         IN [node EXCEPT !.children = (c :> Insert(child, Tail(key), value)) @@ node.children]

RECURSIVE findNode(_, _)
findNode(node, key) ==
    IF key = <<>> THEN [found |-> TRUE, node |-> node]
    ELSE IF Head(key) \in DOMAIN node.children
         THEN findNode(node.children[Head(key)], Tail(key))
         ELSE [found |-> FALSE, node |-> NewNode]

Rank(c) == CHOOSE i \in 1..Len(Alphabet) : Alphabet[i] = c

First(cs) == CHOOSE c \in cs : \A d \in cs : Rank(c) <= Rank(d)

\* Pre-order traversal: the node's own value, then the children by character.
RECURSIVE walk(_)
RECURSIVE walkChildren(_, _)
walk(node) ==
    (IF node.exists THEN <<node.value>> ELSE <<>>) \o walkChildren(node, DOMAIN node.children)

walkChildren(node, cs) ==
    IF cs = {} THEN <<>>
    ELSE walk(node.children[First(cs)]) \o walkChildren(node, cs \ {First(cs)})

PrefixMatch(trie, prefix) ==
    LET r == findNode(trie, prefix)
    IN IF r.found THEN walk(r.node) ELSE <<>>

(***************************************************************************)
(* Command and flag descriptors.  A command is its name and usage line, a  *)
(* flag its name; the action handlers are opaque.                          *)
(***************************************************************************)
Command(name, usage) == [Name |-> name, Usage |-> usage]

Flag(name) == [Name |-> name]

xlCmd == Command(<<"x", "l">>, "xl")
serverCmd == Command(<<"s", "e", "r", "v", "e", "r">>, "server")
controllerCmd == Command(<<"c", "o", "n", "t", "r", "o", "l", "l", "e", "r">>, "controller")
versionCmd == Command(<<"v", "e", "r", "s", "i", "o", "n">>, "version")

addressFlag == Flag("address")
addressControllerFlag == Flag("address-controller")
addressServerRPCFlag == Flag("address-server-rpc")
ratelimitFlag == Flag("ratelimit")
anonymousFlag == Flag("anonymous")
certFlag == Flag("cert")
keyFlag == Flag("key")
jsonFlag == Flag("json")

Names(cmds) == {cmds[i].Name : i \in 1..Len(cmds)}

(***************************************************************************)
(* Registries.  registerCommand appends to the ordered command list and    *)
(* inserts name -> name into the trie; a duplicate name is a configuration *)
(* error and changes nothing.  registerFlag likewise for the flag list.    *)
(***************************************************************************)
\* Variant: a duplicate name replaces the registered entry instead of failing.
registerCommand_Overwrite(reg, command) ==
    [reg EXCEPT !.commands = IF command.Name \in Names(reg.commands)
                             THEN [i \in 1..Len(reg.commands) |->
                                     IF reg.commands[i].Name = command.Name
                                     THEN command ELSE reg.commands[i]]
                             ELSE Append(reg.commands, command),
                !.commandsTree = Insert(reg.commandsTree, command.Name, command.Name)]

\* Variant: no duplicate check, every call appends and inserts.
registerCommand_NoCheck(reg, command) ==
    [reg EXCEPT !.commands = Append(reg.commands, command),
                !.commandsTree = Insert(reg.commandsTree, command.Name, command.Name)]

registerCommand(reg, command) ==
    IF command.Name \in Names(reg.commands)
    THEN [reg EXCEPT !.err = TRUE]
    ELSE [reg EXCEPT !.commands = Append(reg.commands, command),
                     !.commandsTree = Insert(reg.commandsTree, command.Name, command.Name)]

registerFlag(reg, flag) ==
    IF flag.Name \in Names(reg.flags)
    THEN [reg EXCEPT !.err = TRUE]
    ELSE [reg EXCEPT !.flags = Append(reg.flags, flag)]

RECURSIVE registerCommands(_, _)
registerCommands(reg, cmds) ==
    IF cmds = <<>> \/ reg.err THEN reg
    ELSE registerCommands(registerCommand(reg, Head(cmds)), Tail(cmds))

RECURSIVE registerFlags(_, _)
registerFlags(reg, fs) ==
    IF fs = <<>> \/ reg.err THEN reg
    ELSE registerFlags(registerFlag(reg, Head(fs)), Tail(fs))

(***************************************************************************)
(* findClosestCommands copies the values PrefixMatch returns, in order.    *)
(***************************************************************************)
RECURSIVE appendAll(_, _)
appendAll(acc, values) ==
    IF values = <<>> THEN acc ELSE appendAll(Append(acc, Head(values)), Tail(values))

\* Variant: the loop starts at the second value.
findClosestCommands_SkipFirst(tree, command) ==
    LET values == PrefixMatch(tree, command)
    IN IF values = <<>> THEN <<>> ELSE appendAll(<<>>, Tail(values))

\* Variant: each value replaces the result instead of being appended.
findClosestCommands_KeepLast(tree, command) ==
    LET values == PrefixMatch(tree, command)
    IN IF values = <<>> THEN <<>> ELSE <<values[Len(values)]>>

findClosestCommands(tree, command) == appendAll(<<>>, PrefixMatch(tree, command))

(***************************************************************************)
(* registerApp: the four commands, the eight flags, then the descriptor.   *)
(***************************************************************************)
NoApp == [built |-> FALSE, Name |-> "", HideVersion |-> FALSE, Author |-> "",
          Usage |-> "", Flags |-> <<>>, Commands |-> <<>>]

RECURSIVE Reverse(_)
Reverse(seq) == IF seq = <<>> THEN <<>> ELSE Append(Reverse(Tail(seq)), Head(seq))

\* Variant: the descriptor lists the commands newest first.
NewApp_Reversed(cmds, fs) ==
    [built |-> TRUE, Name |-> "minio-xl", HideVersion |-> TRUE, Author |-> "Minio.io",
     Usage |-> "Minio Cloud Storage", Flags |-> fs, Commands |-> Reverse(cmds)]

NewApp(cmds, fs) ==
    [built |-> TRUE, Name |-> "minio-xl", HideVersion |-> TRUE, Author |-> "Minio.io",
     Usage |-> "Minio Cloud Storage", Flags |-> fs, Commands |-> cmds]

registerApp(reg) ==
    LET r1 == registerCommands(reg, <<xlCmd, serverCmd, controllerCmd, versionCmd>>)
        r2 == registerFlags(r1, <<addressFlag, addressControllerFlag, addressServerRPCFlag,
                                  ratelimitFlag, anonymousFlag, certFlag, keyFlag, jsonFlag>>)
    IN [reg |-> r2, app |-> NewApp(r2.commands, r2.flags)]

(***************************************************************************)
(* getSystemData and the formatting it uses.  A formatted string is the    *)
(* tuple of its pieces.                                                    *)
(***************************************************************************)
Digits == <<"0", "1", "2", "3", "4", "5", "6", "7", "8", "9">>

RECURSIVE Itoa(_)
Itoa(n) == IF n < 10 THEN <<Digits[n + 1]>> ELSE Append(Itoa(n \div 10), Digits[(n % 10) + 1])

Sizes == <<"B", "kB", "MB", "GB", "TB", "PB", "EB">>

RECURSIVE Pow1000(_)
Pow1000(e) == IF e = 0 THEN 1 ELSE 1000 * Pow1000(e - 1)

RECURSIVE Log1000(_)
Log1000(s) == IF s < 1000 THEN 0 ELSE 1 + Log1000(s \div 1000)

HumanizeBytes(s) ==
    IF s < 10 THEN Itoa(s) \o <<" ", "B">>
    ELSE LET e == Log1000(s)
             suffix == Sizes[e + 1]
             val10 == (20 * s + Pow1000(e)) \div (2 * Pow1000(e))
             q == val10 \div 10
             r == val10 % 10
         IN IF val10 < 100
            THEN Itoa(q) \o <<".">> \o Itoa(r) \o <<" ", suffix>>
            ELSE Itoa(IF r > 5 \/ (r = 5 /\ q % 2 = 1) THEN q + 1 ELSE q) \o <<" ", suffix>>

GOOS == "linux"
GOARCH == "amd64"
GoVersion == "go1.5"

HostResults == {[name |-> "node1", err |-> FALSE], [name |-> "node2", err |-> FALSE],
                [name |-> "", err |-> TRUE]}

MemSamples == {[Alloc |-> 5, TotalAlloc |-> 1500, HeapAlloc |-> 5, HeapSys |-> 2500000],
               [Alloc |-> 82000, TotalAlloc |-> 999999, HeapAlloc |-> 10500, HeapSys |-> 10499]}

CPUs == {1, 16}

\* Variant: a failed host-name lookup drops the PLATFORM entry.
getSystemData_NoPlatform(hostResult, memstats, numCPU) ==
    LET mem == <<"Used: ">> \o HumanizeBytes(memstats.Alloc)
               \o <<" | Allocated: ">> \o HumanizeBytes(memstats.TotalAlloc)
               \o <<" | Used-Heap: ">> \o HumanizeBytes(memstats.HeapAlloc)
               \o <<" | Allocated-Heap: ">> \o HumanizeBytes(memstats.HeapSys)
        platform == <<"Host: ", hostResult.name, " | OS: ", GOOS, " | Arch: ", GOARCH>>
        goruntime == <<"Version: ", GoVersion, " | CPUs: ">> \o Itoa(numCPU)
    IN IF hostResult.err
       THEN [RUNTIME |-> goruntime, MEM |-> mem]
       ELSE [PLATFORM |-> platform, RUNTIME |-> goruntime, MEM |-> mem]

getSystemData(hostResult, memstats, numCPU) ==
    LET host == IF hostResult.err THEN "" ELSE hostResult.name
        mem == <<"Used: ">> \o HumanizeBytes(memstats.Alloc)
               \o <<" | Allocated: ">> \o HumanizeBytes(memstats.TotalAlloc)
               \o <<" | Used-Heap: ">> \o HumanizeBytes(memstats.HeapAlloc)
               \o <<" | Allocated-Heap: ">> \o HumanizeBytes(memstats.HeapSys)
        platform == <<"Host: ", host, " | OS: ", GOOS, " | Arch: ", GOARCH>>
        goruntime == <<"Version: ", GoVersion, " | CPUs: ">> \o Itoa(numCPU)
    IN [PLATFORM |-> platform, RUNTIME |-> goruntime, MEM |-> mem]

NoInfo == <<>>

(***************************************************************************)
(* The process.                                                            *)
(***************************************************************************)
Init ==
    /\ pc = "init"
    /\ userErr \in BOOLEAN
    /\ euid \in {0, 1000}
    /\ goVersionOk \in BOOLEAN
    /\ commands = <<>>
    /\ flags = <<>>
    /\ commandsTree = NewTrie
    /\ app = NoApp
    /\ globalJSONFlag = FALSE
    /\ exitCode = 0
    /\ msg = <<>>
    /\ closestCommands = <<>>
    /\ extraInfo = NoInfo
    /\ hostname = [name |-> "", err |-> FALSE]
    /\ token = <<>>
    /\ regErr = FALSE
    /\ regLogC = <<>>
    /\ regLogF = <<>>

\* Fatalf / Fatalln: print the message and exit with a non-zero status.
Fatalln(m) ==
    /\ msg' = m
    /\ exitCode' = 1
    /\ pc' = "exited"

\* Variant: init without the effective-uid check.
init_NoRootCheck ==
    /\ pc = "init"
    /\ IF userErr
       THEN Fatalln(<<"Unable to obtain user's home directory.">>)
       ELSE IF ~goVersionOk
            THEN Fatalln(<<"Unsupported Go runtime version.">>)
            ELSE /\ pc' = "main"
                 /\ UNCHANGED <<msg, exitCode>>
    /\ UNCHANGED <<userErr, euid, goVersionOk, commands, flags, commandsTree, app,
                   globalJSONFlag, closestCommands, extraInfo, hostname, token,
                   regErr, regLogC, regLogF>>

\* func init(): the environment checks that run before main.
init ==
    /\ pc = "init"
    /\ IF userErr
       THEN Fatalln(<<"Unable to obtain user's home directory.">>)
       ELSE IF euid = 0
            THEN Fatalln(<<"Please run 'minio' as a non-root user.">>)
            ELSE IF ~goVersionOk
                 THEN Fatalln(<<"Unsupported Go runtime version.">>)
                 ELSE /\ pc' = "main"
                      /\ UNCHANGED <<msg, exitCode>>
    /\ UNCHANGED <<userErr, euid, goVersionOk, commands, flags, commandsTree, app,
                   globalJSONFlag, closestCommands, extraInfo, hostname, token,
                   regErr, regLogC, regLogF>>

\* func main(), up to the call of app.RunAndExitOnError.
main ==
    /\ pc = "main"
    /\ LET r == registerApp([commands |-> commands, flags |-> flags,
                             commandsTree |-> commandsTree, err |-> FALSE])
       IN /\ commands' = r.reg.commands
          /\ flags' = r.reg.flags
          /\ commandsTree' = r.reg.commandsTree
          /\ regErr' = r.reg.err
          /\ regLogC' = r.reg.commands
          /\ regLogF' = r.reg.flags
          /\ IF r.reg.err
             THEN Fatalln(<<"Registration conflict.">>) /\ app' = app
             ELSE /\ app' = r.app
                  /\ pc' = "run"
                  /\ UNCHANGED <<msg, exitCode>>
    /\ UNCHANGED <<userErr, euid, goVersionOk, globalJSONFlag, closestCommands,
                   extraInfo, hostname, token>>

\* app.RunAndExitOnError: the parser reads the global flags and calls app.Before.
Before(json) ==
    /\ pc = "run"
    /\ globalJSONFlag' = json
    /\ pc' = "dispatch"
    /\ UNCHANGED <<userErr, euid, goVersionOk, commands, flags, commandsTree, app,
                   exitCode, msg, closestCommands, extraInfo, hostname, token,
                   regErr, regLogC, regLogF>>

\* app.ExtraInfo: the help/version template asks for the diagnostics snapshot.
ExtraInfo(hostResult, memstats, numCPU) ==
    /\ pc = "dispatch"
    /\ hostname' = hostResult
    /\ extraInfo' = getSystemData(hostResult, memstats, numCPU)
    /\ UNCHANGED <<pc, userErr, euid, goVersionOk, commands, flags, commandsTree, app,
                   globalJSONFlag, exitCode, msg, closestCommands, token,
                   regErr, regLogC, regLogF>>

\* Variant: the callback is fatal only when there is nothing to suggest.
CommandNotFound_FatalIfNone(command) ==
    /\ pc = "dispatch"
    /\ command \notin Names(app.Commands)
    /\ LET closest == findClosestCommands(commandsTree, command)
       IN /\ closestCommands' = closest
          /\ token' = command
          /\ IF Len(closest) > 0
             THEN UNCHANGED <<pc, msg, exitCode>>
             ELSE Fatalln(<<"is not a minio-xl sub-command", command>>)
    /\ UNCHANGED <<userErr, euid, goVersionOk, commands, flags, commandsTree, app,
                   globalJSONFlag, extraInfo, hostname, regErr, regLogC, regLogF>>

\* Variant: the callback records the unknown token in the trie.
CommandNotFound_Inserts(command) ==
    /\ pc = "dispatch"
    /\ command \notin Names(app.Commands)
    /\ LET closest == findClosestCommands(commandsTree, command)
           m == <<"is not a minio-xl sub-command", command>>
                \o (IF Len(closest) > 0 THEN <<"Did you mean one of these?">> \o closest
                    ELSE <<>>)
       IN /\ closestCommands' = closest
          /\ token' = command
          /\ commandsTree' = Insert(commandsTree, command, command)
          /\ Fatalln(m)
    /\ UNCHANGED <<userErr, euid, goVersionOk, commands, flags, app,
                   globalJSONFlag, extraInfo, hostname, regErr, regLogC, regLogF>>

\* app.CommandNotFound: the parser met a token that names no command.
CommandNotFound(command) ==
    /\ pc = "dispatch"
    /\ command \notin Names(app.Commands)
    /\ LET closest == findClosestCommands(commandsTree, command)
           m == <<"is not a minio-xl sub-command", command>>
                \o (IF Len(closest) > 0 THEN <<"Did you mean one of these?">> \o closest
                    ELSE <<>>)
       IN /\ closestCommands' = closest
          /\ token' = command
          /\ Fatalln(m)
    /\ UNCHANGED <<userErr, euid, goVersionOk, commands, flags, commandsTree, app,
                   globalJSONFlag, extraInfo, hostname, regErr, regLogC, regLogF>>

\* A recognised command (or help) ran to its end; the process exits with its status.
CommandAction(status) ==
    /\ pc = "dispatch"
    /\ exitCode' = status
    /\ pc' = "exited"
    /\ UNCHANGED <<userErr, euid, goVersionOk, commands, flags, commandsTree, app,
                   globalJSONFlag, msg, closestCommands, extraInfo, hostname, token,
                   regErr, regLogC, regLogF>>

BootNames == {xlCmd.Name, serverCmd.Name, controllerCmd.Name, versionCmd.Name}

zzz == <<"z", "z", "z">>

\* Tokens the parser may hand to the not-found callback.
Tokens == UNION {Prefixes(n) : n \in BootNames}
          \cup {zzz, <<"s", "e", "r", "v", "e", "r", "s">>, <<"l">>}

Next ==
    \/ init
    \/ main
    \/ \E json \in BOOLEAN : Before(json)
    \/ \E h \in HostResults, m \in MemSamples, n \in CPUs : ExtraInfo(h, m, n)
    \/ \E t \in Tokens : CommandNotFound(t)
    \/ \E status \in {0, 1} : CommandAction(status)

Spec == Init /\ [][Next]_vars

(***************************************************************************)
(* The registries and the trie under arbitrary call sequences.  SpecReg:   *)
(* any command and flag of a bounded universe is registered, in any order  *)
(* and any number of times, then the descriptor is built.  SpecTrie: any   *)
(* commands are registered, then the trie is queried with any token.       *)
(* Names are drawn over a two-letter alphabet, which gives both branching  *)
(* nodes and names that are prefixes of other names.                       *)
(***************************************************************************)
Letters == {"a", "b"}

Strings(lo, hi) == UNION {[1..k -> Letters] : k \in lo..hi}

\* One descriptor per name, and a second one with another usage line for the
\* one-letter names (a duplicate name need not be a duplicate descriptor).
PlainCmds == {Command(n, "usage1") : n \in Strings(1, MaxLen)}

CmdUniverse == PlainCmds \cup {Command(n, "usage2") : n \in Strings(1, 1)}

FlagUniverse == {addressFlag, jsonFlag}

QueryTokens == Strings(0, MaxLen)

RegInit ==
    /\ pc = "register"
    /\ userErr = FALSE
    /\ euid = 1000
    /\ goVersionOk = TRUE
    /\ commands = <<>>
    /\ flags = <<>>
    /\ commandsTree = NewTrie
    /\ app = NoApp
    /\ globalJSONFlag = FALSE
    /\ exitCode = 0
    /\ msg = <<>>
    /\ closestCommands = <<>>
    /\ extraInfo = NoInfo
    /\ hostname = [name |-> "", err |-> FALSE]
    /\ token = <<>>
    /\ regErr = FALSE
    /\ regLogC = <<>>
    /\ regLogF = <<>>

RegisterCommand(cmd) ==
    /\ pc = "register"
    /\ \/ Len(commands) < MaxCmds
       \/ Len(commands) = MaxCmds /\ cmd.Name \in Names(commands)
    /\ LET r == registerCommand([commands |-> commands, flags |-> flags,
                                 commandsTree |-> commandsTree, err |-> FALSE], cmd)
       IN /\ commands' = r.commands
          /\ flags' = r.flags
          /\ commandsTree' = r.commandsTree
          /\ regErr' = r.err
          /\ regLogC' = IF r.err THEN regLogC ELSE Append(regLogC, cmd)
    /\ UNCHANGED <<pc, userErr, euid, goVersionOk, app, globalJSONFlag, exitCode, msg,
                   closestCommands, extraInfo, hostname, token, regLogF>>

RegisterFlag(flag) ==
    /\ pc = "register"
    /\ \/ Len(flags) < MaxFlags
       \/ Len(flags) = MaxFlags /\ flag.Name \in Names(flags)
    /\ LET r == registerFlag([commands |-> commands, flags |-> flags,
                              commandsTree |-> commandsTree, err |-> FALSE], flag)
       IN /\ commands' = r.commands
          /\ flags' = r.flags
          /\ commandsTree' = r.commandsTree
          /\ regErr' = r.err
          /\ regLogF' = IF r.err THEN regLogF ELSE Append(regLogF, flag)
    /\ UNCHANGED <<pc, userErr, euid, goVersionOk, app, globalJSONFlag, exitCode, msg,
                   closestCommands, extraInfo, hostname, token, regLogC>>

BuildApp ==
    /\ pc = "register"
    /\ app' = NewApp(commands, flags)
    /\ pc' = "query"
    /\ UNCHANGED <<userErr, euid, goVersionOk, commands, flags, commandsTree,
                   globalJSONFlag, exitCode, msg, closestCommands, extraInfo, hostname,
                   token, regErr, regLogC, regLogF>>

Query(command) ==
    /\ pc \in {"query", "queried"}
    /\ closestCommands' = findClosestCommands(commandsTree, command)
    /\ token' = command
    /\ pc' = "queried"
    /\ UNCHANGED <<userErr, euid, goVersionOk, commands, flags, commandsTree, app,
                   globalJSONFlag, exitCode, msg, extraInfo, hostname,
                   regErr, regLogC, regLogF>>

RegNext ==
    \/ \E cmd \in CmdUniverse : RegisterCommand(cmd)
    \/ \E flag \in FlagUniverse : RegisterFlag(flag)
    \/ BuildApp

SpecReg == RegInit /\ [][RegNext]_vars

TrieNext ==
    \/ \E cmd \in PlainCmds : RegisterCommand(cmd)
    \/ BuildApp
    \/ \E t \in QueryTokens : Query(t)

SpecTrie == RegInit /\ [][TrieNext]_vars

(***************************************************************************)
(* Properties.                                                             *)
(***************************************************************************)
NotFoundMsg == "is not a minio-xl sub-command"

\* C1: every invocation of the not-found callback, with any token, ends the
\* process with a non-zero exit status, whether or not PrefixMatch returned
\* suggestions.
C1_NotFoundAlwaysFatal ==
    [][\A t \in Tokens : CommandNotFound(t) => (pc' = "exited" /\ exitCode' = 1)]_vars

C1_Witness ==
    /\ pc = "exited"
    /\ exitCode = 1
    /\ Len(msg) > 0
    /\ msg[1] = NotFoundMsg
    /\ Len(closestCommands) > 0

StartsWith(cmds, t) == {n \in Names(cmds) : IsPrefix(t, n)}

gatewayCmd == Command(<<"g", "a", "t", "e", "w", "a", "y">>, "gateway")

EmptyRegistry == [commands |-> <<>>, flags |-> <<>>, commandsTree |-> NewTrie, err |-> FALSE]

ScenarioRegistry ==
    registerCommands(EmptyRegistry, <<serverCmd, gatewayCmd, controllerCmd, versionCmd>>)

contro == <<"c", "o", "n", "t", "r", "o">>

ScenarioOK ==
    /\ findClosestCommands(ScenarioRegistry.commandsTree, contro) = <<controllerCmd.Name>>
    /\ ToSet(findClosestCommands(ScenarioRegistry.commandsTree, <<>>))
          = Names(ScenarioRegistry.commands)
    /\ findClosestCommands(ScenarioRegistry.commandsTree, zzz) = <<>>

\* C2: for every registry content and every token t, the candidates returned
\* by findClosestCommands(t) are, as a set, exactly the registered names that
\* start with t (all names for the empty token, none for a token that is a
\* prefix of no name); with {server, gateway, controller, version}, "contro"
\* yields only "controller".
C2_SuggestionsArePrefixMatches ==
    /\ \A t \in QueryTokens :
          ToSet(findClosestCommands(commandsTree, t)) = StartsWith(commands, t)
    /\ pc = "queried" => ToSet(closestCommands) = StartsWith(commands, token)
    /\ ScenarioOK

C2_Witness ==
    /\ pc = "queried"
    /\ Len(commands) = 2
    /\ Len(closestCommands) = 1
    /\ Len(token) = 1

Extends(cmds, n) == {m \in Names(cmds) : m # n /\ IsPrefix(n, m)}

Count(seq, x) == Cardinality({i \in 1..Len(seq) : seq[i] = x})

\* C3 as stated: PrefixMatch on an inserted name n returns exactly <<n>>, also
\* when another inserted name has n as a proper prefix.
C3_Original ==
    /\ \A n \in Names(commands) : findClosestCommands(commandsTree, n) = <<n>>
    /\ (pc = "queried" /\ token \in Names(commands)) => closestCommands = <<token>>

\* C3 (amended): PrefixMatch on an inserted name n returns a sequence that
\* holds n exactly once and otherwise only the inserted names that have n as
\* a proper prefix, each once; it is exactly <<n>> when no other inserted
\* name has n as a proper prefix.
C3_FullNameMatch ==
    /\ \A n \in Names(commands) :
          LET r == findClosestCommands(commandsTree, n)
          IN /\ Count(r, n) = 1
             /\ ToSet(r) = {n} \cup Extends(commands, n)
             /\ Len(r) = 1 + Cardinality(Extends(commands, n))
             /\ Extends(commands, n) = {} => r = <<n>>
    /\ (pc = "queried" /\ token \in Names(commands)) =>
          /\ Count(closestCommands, token) = 1
          /\ Len(closestCommands) = 1 + Cardinality(Extends(commands, token))
          /\ Extends(commands, token) = {} => closestCommands = <<token>>

C3_Witness ==
    /\ pc = "queried"
    /\ token \in Names(commands)
    /\ Extends(commands, token) # {}
    /\ Len(closestCommands) = 2

\* C4: registering a command whose name is already registered reports a
\* configuration error and leaves the command list, the flag list and the
\* trie exactly as they were; the existing entry is not overwritten.
C4_DuplicateRejected ==
    [][\A cmd \in CmdUniverse :
          (RegisterCommand(cmd) /\ cmd.Name \in Names(commands)) =>
              /\ regErr'
              /\ commands' = commands
              /\ commandsTree' = commandsTree
              /\ flags' = flags]_vars

\* A duplicate command was just rejected (no flag is registered, so the error
\* is a command's) with two commands in the list.
C4_Witness ==
    /\ regErr
    /\ flags = <<>>
    /\ Len(commands) = 2
    /\ pc = "register"

RECURSIVE Terminals(_)
Terminals(node) ==
    (IF node.exists THEN {<<<<>>, node.value>>} ELSE {})
    \cup UNION {{<<<<c>> \o t[1], t[2]>> : t \in Terminals(node.children[c])} :
                c \in DOMAIN node.children}

\* C5: in every reachable state command names are pairwise distinct, and the
\* terminal values of the trie are exactly the names of the command list,
\* each name carried by exactly one terminal node (the one at its own path).
C5_RegistryTrieAgree ==
    /\ \A i, j \in 1..Len(commands) : i # j => commands[i].Name # commands[j].Name
    /\ {t[2] : t \in Terminals(commandsTree)} = Names(commands)
    /\ \A n \in Names(commands) :
          {t \in Terminals(commandsTree) : t[2] = n} = {<<n, n>>}

C5_Witness ==
    /\ regErr
    /\ flags = <<>>
    /\ Len(commands) = 2
    /\ Cardinality(Terminals(commandsTree)) = 2

PreconditionFails == userErr \/ euid = 0 \/ ~goVersionOk

\* C6: when a start-up precondition fails the process ends with a fatal
\* error before anything is registered and before the parser gets control:
\* it is never in "main", "run" or "dispatch", and the command list, the flag
\* list, the trie and the descriptor stay empty.
C6_PreconditionFatal ==
    PreconditionFails =>
        /\ pc \in {"init", "exited"}
        /\ pc = "exited" => exitCode = 1
        /\ commands = <<>>
        /\ flags = <<>>
        /\ commandsTree = NewTrie
        /\ app = NoApp

C6_Witness ==
    /\ pc = "exited"
    /\ euid = 0
    /\ ~userErr
    /\ goVersionOk
    /\ exitCode = 1

SnapshotKeys == {"PLATFORM", "RUNTIME", "MEM"}

\* C7: every snapshot getSystemData returns has exactly the keys PLATFORM,
\* RUNTIME and MEM; when os.Hostname fails the snapshot is still returned and
\* the host field of PLATFORM is the empty string.
C7_SnapshotKeys ==
    /\ \A h \in HostResults, m \in MemSamples, n \in CPUs :
          /\ DOMAIN getSystemData(h, m, n) = SnapshotKeys
          /\ h.err => getSystemData(h, m, n).PLATFORM[2] = ""
    /\ DOMAIN extraInfo # {} =>
          /\ DOMAIN extraInfo = SnapshotKeys
          /\ hostname.err => extraInfo.PLATFORM[2] = ""

C7_Witness ==
    /\ DOMAIN extraInfo = SnapshotKeys
    /\ hostname.err
    /\ extraInfo.PLATFORM[1] = "Host: "

BootstrapOrderOK ==
    /\ registerApp(EmptyRegistry).app.Commands
          = <<xlCmd, serverCmd, controllerCmd, versionCmd>>
    /\ registerApp(EmptyRegistry).app.Flags
          = <<addressFlag, addressControllerFlag, addressServerRPCFlag, ratelimitFlag,
              anonymousFlag, certFlag, keyFlag, jsonFlag>>

\* C8: the command list and the flag list hold the accepted registrations in
\* call order, without reordering, loss or duplication, and the descriptor is
\* handed exactly these lists; the shipped bootstrap yields xl, server,
\* controller, version and the eight flags in their call order.
C8_RegistrationOrder ==
    /\ commands = regLogC
    /\ flags = regLogF
    /\ app.built => (app.Commands = regLogC /\ app.Flags = regLogF)
    /\ BootstrapOrderOK

C8_Witness ==
    /\ app.built
    /\ Len(app.Commands) = 2
    /\ Len(app.Flags) = 1
    /\ regErr

\* C10: once registration has completed, no step (a not-found query, a
\* diagnostics snapshot, the hand-off to the parser, a command running)
\* changes the command list, the flag list or the trie.
C10_ReadOnlyAfterBootstrap ==
    [][(pc \in {"run", "dispatch", "exited"}) =>
          (commands' = commands /\ flags' = flags /\ commandsTree' = commandsTree)]_vars

C10_Witness ==
    /\ pc = "exited"
    /\ DOMAIN extraInfo # {}
    /\ Len(closestCommands) > 0
    /\ Len(commands) = 4

====
